---- MODULE Spec2Model ----
(***************************************************************************)
(* Model of the virtual file system of filesystem.py: a fixed array of     *)
(* block slots, a file table mapping a path to the ordered list of the     *)
(* block indices it owns, three allocation strategies, and the command     *)
(* handlers of execute_command (write, append, cat, rm, ls, defrag, map,   *)
(* strategy, info).                                                        *)
(*                                                                         *)
(* Strings are sequences of one-character strings.  A path is the sequence *)
(* of its whitespace-separated words (<<"a","b">> is the path "a b" that   *)
(* the command line  write "a b" x  names).  Block indices are 0-based as  *)
(* in the source; block lists are sequences of indices.  The "meta" entry  *)
(* of the disk (creation time) is never read by any handler and is left    *)
(* out.                                                                    *)
(***************************************************************************)
EXTENDS Integers, Sequences, FiniteSets, TLC

\* The disk is scaled down: the source has 128 blocks of 128 characters.
BLOCK_SIZE == 2
TOTAL_BLOCKS == 3
\* Longest content a write command is given.
MaxLen == 5
\* Longest content an append command is given.
MaxAppend == 2
\* Number of slots of the stores the allocators are given in AllocSpec.
StoreLen == 5
\* Characters in a row of the map report.
MapRowWidth == 64

VALID_STRATEGIES == {"bitmap", "first_fit", "best_fit"}

\* Strategy names a strategy command may be given ("bogus" is not valid).
StrategyNames == VALID_STRATEGIES \cup {"bogus"}

\* The contents typed in commands are the prefixes of Word, whose characters
\* are pairwise distinct: a fragment lost, repeated or out of place shows.
Word == <<"p", "q", "r", "s", "t", "u", "v", "w", "x", "y", "z">>

Prefixes(m) == {SubSeq(Word, 1, n) : n \in 0..(IF m < Len(Word) THEN m ELSE Len(Word))}

Contents == Prefixes(MaxLen)

AppendContents == Prefixes(MaxAppend)

\* The paths typed in commands, in ascending Python string order:
\* "a" < "a b".
PathOrder == << <<"a">>, <<"a", "b">> >>

Paths == {PathOrder[k] : k \in 1..Len(PathOrder)}

Indices == 0..(TOTAL_BLOCKS - 1)

VARIABLES disk, disk_file, last

vars == <<disk, disk_file, last>>

----------------------------------------------------------------------------
\* Values of a block slot: Python None, or a string fragment.
None == [isNone |-> TRUE, text |-> <<>>]

Frag(s) == [isNone |-> FALSE, text |-> s]

\* `b or ""`
OrEmpty(b) == IF b.isNone \/ b.text = <<>> THEN <<>> ELSE b.text

\* truthiness of a slot (`if b`)
Truthy(b) == ~b.isNone /\ b.text # <<>>

\* Result of an allocator: Python None, or a list of indices.
AllocNone == [isNone |-> TRUE, list |-> <<>>]

AllocList(l) == [isNone |-> FALSE, list |-> l]

\* `not blocks`
Falsy(r) == r.isNone \/ r.list = <<>>

\* list(range(lo, hi))
Range(lo, hi) == [k \in 1..(IF hi > lo THEN hi - lo ELSE 0) |-> lo + k - 1]

\* s[lo:hi] for 0 <= lo <= hi on a string or list
Slice(s, lo, hi) ==
    LET h == IF hi > Len(s) THEN Len(s) ELSE hi
    IN  IF lo >= h THEN <<>> ELSE SubSeq(s, lo + 1, h)

default_disk ==
    [blocks |-> [i \in Indices |-> None],
     files |-> <<>>,
     strategy |-> "bitmap"]

----------------------------------------------------------------------------
\* Allocation strategies

\* Variant of free_indices that takes every slot for free.
free_indices_AllSlots(d) == Range(0, TOTAL_BLOCKS)

\* len(disk["blocks"])
NumBlocks(d) == Cardinality(DOMAIN d.blocks)

free_indices(d) == SelectSeq(Range(0, NumBlocks(d)), LAMBDA i : d.blocks[i].isNone)

\* Variant of get_free_blocks_bitmap that wants one free slot to spare.
get_free_blocks_bitmap_Spare(d, n) ==
    LET free == free_indices(d)
    IN  IF Len(free) <= n THEN AllocNone ELSE AllocList(Slice(free, 0, n))

get_free_blocks_bitmap(d, n) ==
    LET free == free_indices(d)
    IN  IF Len(free) < n THEN AllocNone ELSE AllocList(Slice(free, 0, n))

\* Variant of the first_fit loop that does not reset run at a used slot.
RECURSIVE FirstFitScan_NoReset(_, _, _, _)
FirstFitScan_NoReset(d, n, i, run) ==
    IF i >= NumBlocks(d) THEN AllocNone
    ELSE LET run2 == IF d.blocks[i].isNone THEN run + 1 ELSE run
         IN  IF run2 = n
             THEN AllocList(Range(i - n + 1, i - n + 1 + n))
             ELSE FirstFitScan_NoReset(d, n, i + 1, run2)

\* The loop of get_free_blocks_first_fit from slot i with the run so far.
RECURSIVE FirstFitScan(_, _, _, _)
FirstFitScan(d, n, i, run) ==
    IF i >= NumBlocks(d) THEN AllocNone
    ELSE LET run2 == IF d.blocks[i].isNone THEN run + 1 ELSE 0
         IN  IF run2 = n
             THEN AllocList(Range(i - n + 1, i - n + 1 + n))
             ELSE FirstFitScan(d, n, i + 1, run2)

\* Variant of get_free_blocks_first_fit that takes the lowest free slots.
get_free_blocks_first_fit_Scattered(d, n) == get_free_blocks_bitmap(d, n)

get_free_blocks_first_fit(d, n) == FirstFitScan(d, n, 0, 0)

\* The loop of get_free_blocks_best_fit: the closed runs and the open one.
RECURSIVE BestFitScan(_, _, _, _)
BestFitScan(d, i, runs, current) ==
    IF i >= NumBlocks(d)
    THEN IF current # <<>> THEN Append(runs, current) ELSE runs
    ELSE IF d.blocks[i].isNone
         THEN BestFitScan(d, i + 1, runs, Append(current, i))
         ELSE IF current # <<>>
              THEN BestFitScan(d, i + 1, Append(runs, current), <<>>)
              ELSE BestFitScan(d, i + 1, runs, current)

\* Variant of MinByLen that takes the first candidate.
MinByLen_First(candidates) == candidates[1]

\* min(candidates, key=len): the first element of minimal length
MinByLen(candidates) ==
    LET k == CHOOSE k \in 1..Len(candidates) :
                 /\ \A j \in 1..Len(candidates) : Len(candidates[k]) <= Len(candidates[j])
                 /\ \A j \in 1..(k - 1) : Len(candidates[j]) > Len(candidates[k])
    IN  candidates[k]

get_free_blocks_best_fit(d, n) ==
    LET runs == BestFitScan(d, 0, <<>>, <<>>)
        candidates == SelectSeq(runs, LAMBDA r : Len(r) >= n)
    IN  IF candidates = <<>> THEN AllocNone
        ELSE AllocList(Slice(MinByLen(candidates), 0, n))

allocate_blocks(d, n) ==
    IF d.strategy = "bitmap" THEN get_free_blocks_bitmap(d, n)
    ELSE IF d.strategy = "first_fit" THEN get_free_blocks_first_fit(d, n)
    ELSE IF d.strategy = "best_fit" THEN get_free_blocks_best_fit(d, n)
    ELSE AllocNone

----------------------------------------------------------------------------
\* File operations

\* "".join(pieces)
RECURSIVE JoinPieces(_)
JoinPieces(pieces) ==
    IF pieces = <<>> THEN <<>> ELSE Head(pieces) \o JoinPieces(Tail(pieces))

\* read_file_text for a path of the file table
read_file_text(d, path) ==
    JoinPieces([k \in 1..Len(d.files[path]) |-> OrEmpty(d.blocks[d.files[path][k]])])

\* Variant of is_contiguous that only asks for ascending indices.
is_contiguous_Ascending(blocks) ==
    IF blocks # <<>>
    THEN \A i \in 1..(Len(blocks) - 1) : blocks[i] < blocks[i + 1]
    ELSE TRUE

is_contiguous(blocks) ==
    IF blocks # <<>>
    THEN \A i \in 1..(Len(blocks) - 1) : blocks[i] + 1 = blocks[i + 1]
    ELSE TRUE

----------------------------------------------------------------------------
\* Command handlers (execute_command).  Each handler operator gives the disk
\* after the command, whether save_disk ran, and the message logged.

\* Variant of blocks_needed that rounds down.
blocks_needed_Floor(content) == Len(content) \div BLOCK_SIZE

blocks_needed(content) == (Len(content) + BLOCK_SIZE - 1) \div BLOCK_SIZE

NoOut == [kind |-> "None", text |-> <<>>]

Msg(k) == [kind |-> k, text |-> <<>>]

\* disk["files"].get(path, [])
FilesGet(d, path) == IF path \in DOMAIN d.files THEN d.files[path] ELSE <<>>

\* Variant of FreeBlocks that frees nothing.
FreeBlocks_Nothing(blocks, blks) == blocks

\* for b in blks: blocks[b] = None
FreeBlocks(blocks, blks) ==
    [i \in Indices |-> IF \E k \in 1..Len(blks) : blks[k] = i THEN None ELSE blocks[i]]

\* Variant of StoreChunks whose chunks are one character short:
\* text[i*BLOCK_SIZE:(i+1)*BLOCK_SIZE-1].
StoreChunks_ShortChunk(blocks, blks, text) ==
    [i \in DOMAIN blocks |->
        IF \E k \in 1..Len(blks) : blks[k] = i
        THEN LET k == CHOOSE k \in 1..Len(blks) :
                          /\ blks[k] = i
                          /\ \A j \in (k + 1)..Len(blks) : blks[j] # i
             IN  Frag(Slice(text, (k - 1) * BLOCK_SIZE, k * BLOCK_SIZE - 1))
        ELSE blocks[i]]

\* for i, idx in enumerate(blks): blocks[idx] = text[i*BLOCK_SIZE:(i+1)*BLOCK_SIZE]
StoreChunks(blocks, blks, text) ==
    [i \in DOMAIN blocks |->
        IF \E k \in 1..Len(blks) : blks[k] = i
        THEN LET k == CHOOSE k \in 1..Len(blks) :
                          /\ blks[k] = i
                          /\ \A j \in (k + 1)..Len(blks) : blks[j] # i
             IN  Frag(Slice(text, (k - 1) * BLOCK_SIZE, k * BLOCK_SIZE))
        ELSE blocks[i]]

\* Variant of the write branch that frees the path's blocks before it
\* allocates, and restores them when the allocation fails.
WriteCmd_FreeFirst(d, path, content) ==
    LET freed == FreeBlocks(d.blocks, FilesGet(d, path))
        blocks == allocate_blocks([d EXCEPT !.blocks = freed], blocks_needed(content))
    IN  IF Falsy(blocks)
        THEN [disk |-> d, saved |-> FALSE, out |-> Msg("NoSpace")]
        ELSE [disk |-> [d EXCEPT
                         !.blocks = StoreChunks(freed, blocks.list, content),
                         !.files = (path :> blocks.list) @@ d.files],
              saved |-> TRUE,
              out |-> Msg("Wrote")]

\* Variant of the write branch that frees the path's blocks before it
\* allocates, and leaves them freed when the allocation fails.
WriteCmd_Destructive(d, path, content) ==
    LET freed == FreeBlocks(d.blocks, FilesGet(d, path))
        blocks == allocate_blocks([d EXCEPT !.blocks = freed], blocks_needed(content))
    IN  IF Falsy(blocks)
        THEN [disk |-> [d EXCEPT !.blocks = freed], saved |-> FALSE, out |-> Msg("NoSpace")]
        ELSE [disk |-> [d EXCEPT
                         !.blocks = StoreChunks(freed, blocks.list, content),
                         !.files = (path :> blocks.list) @@ d.files],
              saved |-> TRUE,
              out |-> Msg("Wrote")]

\* the write branch of execute_command
WriteCmd(d, path, content) ==
    LET blocks == allocate_blocks(d, blocks_needed(content))
    IN  IF Falsy(blocks)
        THEN [disk |-> d, saved |-> FALSE, out |-> Msg("NoSpace")]
        ELSE [disk |-> [d EXCEPT
                         !.blocks = StoreChunks(FreeBlocks(d.blocks, FilesGet(d, path)),
                                                blocks.list, content),
                         !.files = (path :> blocks.list) @@ d.files],
              saved |-> TRUE,
              out |-> Msg("Wrote")]

\* " ".join(args)
RECURSIVE JoinSpace(_)
JoinSpace(args) ==
    IF Len(args) = 0 THEN <<>>
    ELSE IF Len(args) = 1 THEN args[1]
    ELSE args[1] \o <<" ">> \o JoinSpace(Tail(args))

\* shlex.split(f"write {path} {shlex.quote(new_content)}")[1:]: the path is
\* not quoted, so each of its words is an argument of its own; the quoted
\* content comes back as one argument, unchanged.
ReparsedArgs(path, new_content) ==
    [k \in 1..Len(path) |-> <<path[k]>>] \o <<new_content>>

\* the append branch of execute_command: the nested write's message is
\* dropped and "Appended" is logged whatever the nested write did.
AppendCmd(d, path, content) ==
    LET existing == IF path \in DOMAIN d.files THEN read_file_text(d, path) ELSE <<>>
        new_content == existing \o content
        args == ReparsedArgs(path, new_content)
        inner == WriteCmd(d, <<args[1][1]>>, JoinSpace(Tail(args)))
    IN  [disk |-> inner.disk, saved |-> inner.saved, out |-> Msg("Appended")]

\* the cat branch
CatCmd(d, path) ==
    IF path \in DOMAIN d.files
    THEN LET text == read_file_text(d, path)
         IN  [disk |-> d, saved |-> FALSE,
              out |-> IF text # <<>> THEN [kind |-> "Text", text |-> text]
                      ELSE Msg("EmptyFile")]
    ELSE [disk |-> d, saved |-> FALSE, out |-> Msg("NotFound")]

\* Variant of the rm branch that reports an absent path as deleted.
RmCmd_Silent(d, path) ==
    IF path \in DOMAIN d.files
    THEN [disk |-> [d EXCEPT
                     !.blocks = FreeBlocks(d.blocks, d.files[path]),
                     !.files = [q \in (DOMAIN d.files) \ {path} |-> d.files[q]]],
          saved |-> TRUE,
          out |-> Msg("Deleted")]
    ELSE [disk |-> d, saved |-> TRUE, out |-> Msg("Deleted")]

\* Variant of the rm branch that drops the entry and leaves its blocks.
RmCmd_KeepBlocks(d, path) ==
    IF path \in DOMAIN d.files
    THEN [disk |-> [d EXCEPT
                     !.files = [q \in (DOMAIN d.files) \ {path} |-> d.files[q]]],
          saved |-> TRUE,
          out |-> Msg("Deleted")]
    ELSE [disk |-> d, saved |-> FALSE, out |-> Msg("NotFound")]

\* the rm branch
RmCmd(d, path) ==
    IF path \in DOMAIN d.files
    THEN [disk |-> [d EXCEPT
                     !.blocks = FreeBlocks(d.blocks, d.files[path]),
                     !.files = [q \in (DOMAIN d.files) \ {path} |-> d.files[q]]],
          saved |-> TRUE,
          out |-> Msg("Deleted")]
    ELSE [disk |-> d, saved |-> FALSE, out |-> Msg("NotFound")]

\* Variant of SortedNames in descending order.
SortedNames_Descending(d) ==
    LET asc == SelectSeq(PathOrder, LAMBDA p : p \in DOMAIN d.files)
    IN  [k \in 1..Len(asc) |-> asc[Len(asc) + 1 - k]]

\* sorted(disk["files"]): the names of the file table in ascending order
SortedNames(d) == SelectSeq(PathOrder, LAMBDA p : p \in DOMAIN d.files)

\* Variant of the defrag loop that never advances idx.
RECURSIVE DefragLoop_NoAdvance(_, _, _, _, _)
DefragLoop_NoAdvance(d, names, new_blocks, new_map, idx) ==
    IF names = <<>> THEN [blocks |-> new_blocks, files |-> new_map, error |-> FALSE]
    ELSE LET name == Head(names)
             text == read_file_text(d, name)
             needed == blocks_needed(text)
             assigned == Range(idx, idx + needed)
         IN  IF idx + needed > TOTAL_BLOCKS
             THEN [blocks |-> new_blocks, files |-> new_map, error |-> TRUE]
             ELSE DefragLoop_NoAdvance(d, Tail(names),
                                       StoreChunks(new_blocks, assigned, text),
                                       (name :> assigned) @@ new_map,
                                       idx)

\* Variant of the defrag loop that leaves a slot between two files.
RECURSIVE DefragLoop_Gap(_, _, _, _, _)
DefragLoop_Gap(d, names, new_blocks, new_map, idx) ==
    IF names = <<>> THEN [blocks |-> new_blocks, files |-> new_map, error |-> FALSE]
    ELSE LET name == Head(names)
             text == read_file_text(d, name)
             needed == blocks_needed(text)
             assigned == Range(idx, idx + needed)
         IN  IF idx + needed > TOTAL_BLOCKS
             THEN [blocks |-> new_blocks, files |-> new_map, error |-> TRUE]
             ELSE DefragLoop_Gap(d, Tail(names),
                                 StoreChunks(new_blocks, assigned, text),
                                 (name :> assigned) @@ new_map,
                                 idx + needed + 1)

\* The loop of the defrag branch over the sorted names.  Storing at an index
\* past the end of new_blocks raises IndexError and ends the handler.
RECURSIVE DefragLoop(_, _, _, _, _)
DefragLoop(d, names, new_blocks, new_map, idx) ==
    IF names = <<>> THEN [blocks |-> new_blocks, files |-> new_map, error |-> FALSE]
    ELSE LET name == Head(names)
             text == read_file_text(d, name)
             needed == blocks_needed(text)
             assigned == Range(idx, idx + needed)
         IN  IF idx + needed > TOTAL_BLOCKS
             THEN [blocks |-> new_blocks, files |-> new_map, error |-> TRUE]
             ELSE DefragLoop(d, Tail(names),
                             StoreChunks(new_blocks, assigned, text),
                             (name :> assigned) @@ new_map,
                             idx + needed)

\* the defrag branch
DefragCmd(d) ==
    LET r == DefragLoop(d, SortedNames(d), [i \in Indices |-> None], <<>>, 0)
    IN  IF r.error
        THEN [disk |-> d, saved |-> FALSE, out |-> Msg("IndexError")]
        ELSE [disk |-> [d EXCEPT !.blocks = r.blocks, !.files = r.files],
              saved |-> TRUE,
              out |-> Msg("Defragmented")]

\* sum(len(disk["blocks"][b] or "") for b in blocks)
RECURSIVE SumLen(_, _)
SumLen(d, blks) ==
    IF blks = <<>> THEN 0
    ELSE Len(OrEmpty(d.blocks[Head(blks)])) + SumLen(d, Tail(blks))

\* The row ls logs for a file: block count, size and classification.
LsRow(d, name) ==
    LET blocks == d.files[name]
    IN  [blocks |-> Len(blocks),
         size |-> SumLen(d, blocks),
         frag |-> IF ~is_contiguous(blocks) /\ Len(blocks) > 1
                  THEN "fragmented" ELSE "contiguous"]

\* the ls branch; the rows are given by name, their order (the insertion
\* order of the file table) is not modelled.
LsCmd(d) ==
    [disk |-> d, saved |-> FALSE,
     out |-> IF DOMAIN d.files = {} THEN Msg("NoFiles")
             ELSE [kind |-> "Listing",
                   text |-> [name \in DOMAIN d.files |-> LsRow(d, name)]]]

\* ''.join('1' if b else '0' for b in disk["blocks"])
MapBits(d) == [k \in 1..NumBlocks(d) |-> IF Truthy(d.blocks[k - 1]) THEN "1" ELSE "0"]

\* the map branch: the bits, logged in rows of MapRowWidth
MapCmd(d) ==
    LET bits == MapBits(d)
        nrows == (Len(bits) + MapRowWidth - 1) \div MapRowWidth
    IN  [disk |-> d, saved |-> FALSE,
         out |-> [kind |-> "Map",
                  text |-> [r \in 1..nrows |->
                               Slice(bits, (r - 1) * MapRowWidth, r * MapRowWidth)]]]

\* disk["blocks"].count(None)
CountNone(d) == Cardinality({i \in DOMAIN d.blocks : d.blocks[i].isNone})

\* the info branch
InfoCmd(d) ==
    [disk |-> d, saved |-> FALSE,
     out |-> [kind |-> "Info",
              text |-> [strategy |-> d.strategy,
                        files |-> Cardinality(DOMAIN d.files),
                        free_blocks |-> CountNone(d)]]]

\* Variant of the strategy branch that takes any name.
StrategyCmd_AnyName(d, name) ==
    [disk |-> [d EXCEPT !.strategy = name], saved |-> TRUE, out |-> Msg("Changed")]

\* the strategy branch
StrategyCmd(d, name) ==
    IF name \notin VALID_STRATEGIES
    THEN [disk |-> d, saved |-> FALSE, out |-> Msg("InvalidStrategy")]
    ELSE [disk |-> [d EXCEPT !.strategy = name], saved |-> TRUE, out |-> Msg("Changed")]

----------------------------------------------------------------------------
\* State machine: one action per command.  disk is the in-memory disk,
\* disk_file the contents of DISK_FILE, last the command just executed: its
\* arguments, whether its path was in the file table when it started, and
\* the message it logged.

NoPath == <<>>

Apply(r, cmd, path, content) ==
    /\ disk' = r.disk
    /\ disk_file' = IF r.saved THEN r.disk ELSE disk_file
    /\ last' = [cmd |-> cmd, path |-> path, content |-> content,
                existed |-> path \in DOMAIN disk.files, out |-> r.out]

\* load_disk with no DISK_FILE: the default disk, saved.
Init ==
    /\ disk = default_disk
    /\ disk_file = default_disk
    /\ last = [cmd |-> "none", path |-> NoPath, content |-> <<>>,
               existed |-> FALSE, out |-> NoOut]

Write == \E path \in Paths, content \in Contents :
    Apply(WriteCmd(disk, path, content), "write", path, content)

AppendFile == \E path \in Paths, content \in AppendContents :
    Apply(AppendCmd(disk, path, content), "append", path, content)

Cat == \E path \in Paths :
    Apply(CatCmd(disk, path), "cat", path, <<>>)

Rm == \E path \in Paths :
    Apply(RmCmd(disk, path), "rm", path, <<>>)

Defrag == Apply(DefragCmd(disk), "defrag", NoPath, <<>>)

Strategy == \E name \in StrategyNames :
    Apply(StrategyCmd(disk, name), "strategy", NoPath, <<name>>)

Ls == Apply(LsCmd(disk), "ls", NoPath, <<>>)

Map == Apply(MapCmd(disk), "map", NoPath, <<>>)

Info == Apply(InfoCmd(disk), "info", NoPath, <<>>)

Next == Write \/ AppendFile \/ Cat \/ Rm \/ Ls \/ Defrag \/ Map \/ Strategy \/ Info

Spec == Init /\ [][Next]_vars

TypeOK ==
    /\ DOMAIN disk.blocks = Indices
    /\ DOMAIN disk.files \subseteq Paths
    /\ disk.strategy \in VALID_STRATEGIES
    /\ disk_file = disk

----------------------------------------------------------------------------
\* The allocators on their own: AllocSpec starts from any store of StoreLen
\* slots, each free or holding a full fragment, whose used slots belong to
\* one file, under any strategy, and asks for n blocks.

AllocIndices == 0..(StoreLen - 1)

AllocStores ==
    {[blocks |-> [i \in AllocIndices |->
                     IF i \in used THEN Frag(SubSeq(Word, 1, BLOCK_SIZE)) ELSE None],
      files |-> IF used = {} THEN <<>>
                ELSE (<<"a">> :> SelectSeq(Range(0, StoreLen), LAMBDA i : i \in used)),
      strategy |-> strat] : used \in SUBSET AllocIndices, strat \in VALID_STRATEGIES}

AllocInit ==
    /\ disk \in AllocStores
    /\ disk_file = disk
    /\ last = [cmd |-> "none", path |-> NoPath, content |-> <<>>,
               existed |-> FALSE, out |-> NoOut]

\* blocks = allocate_blocks(disk, n)
AllocStep == \E n \in 0..(StoreLen + 1) :
    /\ last' = [cmd |-> "allocate", path |-> NoPath, content |-> <<>>,
                existed |-> FALSE, out |-> NoOut,
                n |-> n, blocks |-> allocate_blocks(disk, n)]
    /\ UNCHANGED <<disk, disk_file>>

AllocNext == AllocStep

AllocSpec == AllocInit /\ [][AllocNext]_vars

----------------------------------------------------------------------------
\* Properties

\* The other files of the table.
Others(d, path) == (DOMAIN d.files) \ {path}

\* The set of block indices a block list names.
BlockSet(blks) == {blks[k] : k \in 1..Len(blks)}

\* C1: after a write that succeeded, reading the written path gives back
\* exactly the content written, under every strategy and whatever else is
\* on the disk.
C1_RoundTrip ==
    (last.cmd = "write" /\ last.out.kind = "Wrote") =>
        /\ last.path \in DOMAIN disk.files
        /\ read_file_text(disk, last.path) = last.content
        /\ CatCmd(disk, last.path).out = [kind |-> "Text", text |-> last.content]

\* A write of more than one block, next to another file, that left the
\* written file in non-adjacent blocks.
C1_Witness ==
    /\ last.cmd = "write" /\ last.out.kind = "Wrote"
    /\ Len(last.content) > BLOCK_SIZE
    /\ Others(disk, last.path) # {}
    /\ ~is_contiguous(disk.files[last.path])

\* C2: no block index is referenced twice, be it by two file-table entries
\* or twice within one entry's block list.
C2_NoSharing ==
    \A p \in DOMAIN disk.files, q \in DOMAIN disk.files :
        \A i \in 1..Len(disk.files[p]), j \in 1..Len(disk.files[q]) :
            (p # q \/ i # j) => disk.files[p][i] # disk.files[q][j]

\* Two files fill the disk, one of them in non-adjacent blocks.
C2_Witness ==
    /\ Cardinality(DOMAIN disk.files) = 2
    /\ \A i \in Indices : ~disk.blocks[i].isNone
    /\ \E p \in DOMAIN disk.files : ~is_contiguous(disk.files[p])

\* The number of slots that hold None.
FreeCount(d) == Cardinality({i \in Indices : d.blocks[i].isNone})

\* C3 as stated, for non-empty content: a write on an existing path
\* succeeds whenever the active strategy can satisfy blocks_needed on the
\* store with the path's old blocks emptied.
C3_FreesBeforeAllocating ==
    [][(/\ last'.cmd = "write"
        /\ last'.path \in DOMAIN disk.files
        /\ last'.content # <<>>
        /\ ~allocate_blocks([disk EXCEPT !.blocks = FreeBlocks(disk.blocks,
                                                               disk.files[last'.path])],
                            blocks_needed(last'.content)).isNone)
       => last'.out.kind = "Wrote"]_vars

\* C3 (amended): a write on an existing path allocates before it frees.
\* The blocks of a successful write are disjoint from the path's old blocks,
\* which are free afterwards; and when fewer slots are free than
\* blocks_needed, the path's own blocks not counted, the write fails and
\* leaves the disk as it was.
C3_AllocatesBeforeFreeing ==
    [][(last'.cmd = "write" /\ last'.path \in DOMAIN disk.files) =>
          LET path == last'.path
              old == BlockSet(disk.files[path])
          IN  /\ last'.out.kind = "Wrote" =>
                    /\ BlockSet(disk'.files[path]) \cap old = {}
                    /\ \A b \in old : disk'.blocks[b].isNone
              /\ FreeCount(disk) < blocks_needed(last'.content) =>
                    /\ last'.out.kind = "NoSpace"
                    /\ disk' = disk]_vars

\* The rewrite of a file that occupies every block, with content of the
\* same length, has failed.
C3_Witness ==
    /\ last.cmd = "write" /\ last.existed /\ last.out.kind = "NoSpace"
    /\ last.path \in DOMAIN disk.files
    /\ Len(disk.files[last.path]) = TOTAL_BLOCKS
    /\ Len(last.content) = Len(read_file_text(disk, last.path))

\* C4 as stated: when a write on an existing path fails with NoSpace, the
\* path's previous blocks have been freed and its previous content can no
\* longer be read.
C4_FailedWriteDestructive ==
    [][(/\ last'.cmd = "write"
        /\ last'.path \in DOMAIN disk.files
        /\ last'.out.kind = "NoSpace")
       => /\ \A b \in BlockSet(disk.files[last'.path]) : disk'.blocks[b].isNone
          /\ \/ last'.path \notin DOMAIN disk'.files
             \/ read_file_text(disk', last'.path) # read_file_text(disk, last'.path)]_vars

\* C4 (amended): when a write on an existing path fails with NoSpace,
\* nothing is changed: the path keeps its blocks, every slot keeps its
\* fragment, and the path's previous content is still read.
C4_FailedWriteKeepsFile ==
    [][(/\ last'.cmd = "write"
        /\ last'.path \in DOMAIN disk.files
        /\ last'.out.kind = "NoSpace")
       => /\ last'.path \in DOMAIN disk'.files
          /\ disk'.files[last'.path] = disk.files[last'.path]
          /\ disk'.blocks = disk.blocks
          /\ read_file_text(disk', last'.path) = read_file_text(disk, last'.path)
          /\ disk_file' = disk_file]_vars

\* A write of non-empty content on an existing path has failed, next to
\* another file.
C4_Witness ==
    /\ last.cmd = "write" /\ last.existed /\ last.out.kind = "NoSpace"
    /\ last.content # <<>>
    /\ last.path \in DOMAIN disk.files
    /\ Others(disk, last.path) # {}

\* C5: a write of zero-length content succeeds, leaves the path in the file
\* table with an empty block list, and the path then reads as empty content.
C5_EmptyWriteSucceeds ==
    (last.cmd = "write" /\ last.content = <<>>) =>
        /\ last.out.kind = "Wrote"
        /\ last.path \in DOMAIN disk.files
        /\ disk.files[last.path] = <<>>
        /\ CatCmd(disk, last.path).out.kind # "NotFound"
        /\ read_file_text(disk, last.path) = <<>>

\* C6: append(path, a) on a disk without path, followed by append(path, b),
\* leaves read(path) = a + b when a + b fits in the free blocks and the
\* path's own.
C6_AppendTwice ==
    [][(/\ last.cmd = "append" /\ ~last.existed
        /\ last'.cmd = "append" /\ last'.path = last.path
        /\ blocks_needed(last.content \o last'.content)
             <= FreeCount(disk) + Len(FilesGet(disk, last.path)))
       => /\ last'.path \in DOMAIN disk'.files
          /\ read_file_text(disk', last'.path) = last.content \o last'.content]_vars

\* C7: an append does what write(path, read(path) + content) does from the
\* same disk (write(path, content) when path is absent): the same disk
\* results, and it reports NoSpace exactly when that write does.
C7_AppendIsWrite ==
    [][last'.cmd = "append" =>
          LET path == last'.path
              existing == IF path \in DOMAIN disk.files
                          THEN read_file_text(disk, path) ELSE <<>>
              w == WriteCmd(disk, path, existing \o last'.content)
          IN  /\ disk' = w.disk
              /\ (last'.out.kind = "NoSpace") <=> (w.out.kind = "NoSpace")]_vars

\* C8: deleting an existing path makes it NotFound, puts every block it
\* owned among free_indices, and leaves every other file's block list and
\* content as they were.
C8_Delete ==
    [][(last'.cmd = "rm" /\ last'.path \in DOMAIN disk.files) =>
          LET path == last'.path
              free == free_indices(disk')
          IN  /\ path \notin DOMAIN disk'.files
              /\ CatCmd(disk', path).out.kind = "NotFound"
              /\ \A b \in BlockSet(disk.files[path]) : \E k \in 1..Len(free) : free[k] = b
              /\ DOMAIN disk'.files = Others(disk, path)
              /\ \A q \in Others(disk, path) :
                    /\ disk'.files[q] = disk.files[q]
                    /\ read_file_text(disk', q) = read_file_text(disk, q)]_vars

\* An existing path has been deleted; another file of several blocks remains.
C8_Witness ==
    /\ last.cmd = "rm" /\ last.existed /\ last.out.kind = "Deleted"
    /\ last.path \notin DOMAIN disk.files
    /\ \E q \in DOMAIN disk.files : Len(disk.files[q]) >= 2

\* C9: defragment keeps the set of paths, the content read from each path
\* and the strategy.
C9_DefragPreserves ==
    [][last'.cmd = "defrag" =>
          /\ DOMAIN disk'.files = DOMAIN disk.files
          /\ \A p \in DOMAIN disk.files :
                read_file_text(disk', p) = read_file_text(disk, p)
          /\ disk'.strategy = disk.strategy]_vars

\* A defragment of a disk with two files, under a strategy other than the
\* default.
C9_Witness ==
    /\ last.cmd = "defrag" /\ last.out.kind = "Defragmented"
    /\ Cardinality(DOMAIN disk.files) = 2
    /\ disk.strategy = "best_fit"

\* Position of a path in ascending string order.
PathRank(p) == CHOOSE k \in 1..Len(PathOrder) : PathOrder[k] = p

\* C10: right after defragment the used slots are 0..k-1 for some k, every
\* block list is a run of consecutive ascending indices, and the files lie
\* in ascending path order.
C10_DefragLayout ==
    last.cmd = "defrag" =>
        /\ \E k \in 0..TOTAL_BLOCKS :
              /\ \A i \in Indices : (~disk.blocks[i].isNone) <=> i < k
              /\ UNION {BlockSet(disk.files[p]) : p \in DOMAIN disk.files} = 0..(k - 1)
        /\ \A p \in DOMAIN disk.files :
              \A i \in 1..(Len(disk.files[p]) - 1) :
                  disk.files[p][i + 1] = disk.files[p][i] + 1
        /\ \A p \in DOMAIN disk.files, q \in DOMAIN disk.files :
              PathRank(p) < PathRank(q) =>
                  \A b \in BlockSet(disk.files[p]), c \in BlockSet(disk.files[q]) : b < c

\* A defragment of a disk with two files and a free slot left.
C10_Witness ==
    /\ last.cmd = "defrag"
    /\ Cardinality(DOMAIN disk.files) = 2
    /\ FreeCount(disk) >= 1

\* The starts of the windows of n consecutive free slots of the store.
FreeWindows(d, n) ==
    {st \in 0..(NumBlocks(d) - n) : \A i \in st..(st + n - 1) : d.blocks[i].isNone}

\* The least element of a non-empty set of numbers.
Least(S) == CHOOSE x \in S : \A y \in S : x <= y

\* C11: under first_fit, for n >= 1, the allocation is the window of n
\* consecutive free slots with the lowest start, and it fails exactly when
\* there is no such window, however many slots are free.
C11_FirstFit ==
    (last.cmd = "allocate" /\ disk.strategy = "first_fit" /\ last.n >= 1) =>
        LET W == FreeWindows(disk, last.n)
        IN  /\ last.blocks.isNone <=> W = {}
            /\ W # {} => last.blocks.list = Range(Least(W), Least(W) + last.n)

\* used = {1}, free = {0, 2, 3}, n = 2: first_fit gives [2, 3] where bitmap
\* gives [0, 2].
C11_Witness ==
    /\ last.cmd = "allocate" /\ disk.strategy = "first_fit" /\ last.n = 2
    /\ disk.blocks[0].isNone /\ ~disk.blocks[1].isNone
    /\ disk.blocks[2].isNone /\ disk.blocks[3].isNone
    /\ last.blocks = AllocList(<<2, 3>>)
    /\ get_free_blocks_bitmap(disk, 2) = AllocList(<<0, 2>>)

\* The maximal runs of consecutive free slots, as <<first, last>> pairs.
MaximalRuns(d) ==
    {r \in (DOMAIN d.blocks) \X (DOMAIN d.blocks) :
        /\ r[1] <= r[2]
        /\ \A i \in r[1]..r[2] : d.blocks[i].isNone
        /\ (r[1] - 1 \in DOMAIN d.blocks) => ~d.blocks[r[1] - 1].isNone
        /\ (r[2] + 1 \in DOMAIN d.blocks) => ~d.blocks[r[2] + 1].isNone}

RunLen(r) == r[2] - r[1] + 1

\* C12: under best_fit, for n >= 1, the allocation is the first n slots of
\* the shortest maximal free run of length >= n, the lowest-indexed one on
\* a tie, and it fails exactly when no maximal free run has length >= n.
C12_BestFit ==
    (last.cmd = "allocate" /\ disk.strategy = "best_fit" /\ last.n >= 1) =>
        LET cand == {r \in MaximalRuns(disk) : RunLen(r) >= last.n}
        IN  /\ last.blocks.isNone <=> cand = {}
            /\ cand # {} =>
                  LET best == CHOOSE r \in cand :
                                 \A q \in cand :
                                     \/ RunLen(r) < RunLen(q)
                                     \/ RunLen(r) = RunLen(q) /\ r[1] <= q[1]
                  IN  last.blocks.list = Range(best[1], best[1] + last.n)

\* Free runs of lengths 2 and 1, in that order, and n = 1: the run of
\* length 1 is taken, not the first one.
C12_Witness ==
    /\ last.cmd = "allocate" /\ disk.strategy = "best_fit" /\ last.n = 1
    /\ disk.blocks[0].isNone /\ disk.blocks[1].isNone /\ ~disk.blocks[2].isNone
    /\ disk.blocks[3].isNone /\ ~disk.blocks[4].isNone
    /\ last.blocks = AllocList(<<3>>)

\* The slots that hold None.
FreeSet(d) == {i \in DOMAIN d.blocks : d.blocks[i].isNone}

\* l lists, in ascending order, the n lowest elements of S.
IsLowest(l, n, S) ==
    /\ Len(l) = n
    /\ \A k \in 1..(Len(l) - 1) : l[k] < l[k + 1]
    /\ BlockSet(l) \subseteq S
    /\ \A f \in S \ BlockSet(l) : \A b \in BlockSet(l) : b < f

\* C13: under bitmap, for n >= 1, the allocation is the n lowest free
\* indices in ascending order, adjacent or not, and fails exactly when fewer
\* than n slots are free; so a write that needs n >= 1 blocks succeeds, on
\* those blocks, whenever at least n slots are free.
C13_Bitmap ==
    [][disk.strategy = "bitmap" =>
          /\ \A n \in 1..(TOTAL_BLOCKS + 1) :
                LET r == allocate_blocks(disk, n)
                IN  /\ r.isNone <=> Cardinality(FreeSet(disk)) < n
                    /\ ~r.isNone => IsLowest(r.list, n, FreeSet(disk))
          /\ (/\ last'.cmd = "write"
              /\ blocks_needed(last'.content) >= 1
              /\ Cardinality(FreeSet(disk)) >= blocks_needed(last'.content))
             => /\ last'.out.kind = "Wrote"
                /\ IsLowest(disk'.files[last'.path], blocks_needed(last'.content),
                            FreeSet(disk))]_vars

\* A write under bitmap that took the last free slots, which were not
\* adjacent.
C13_Witness ==
    /\ last.cmd = "write" /\ last.out.kind = "Wrote"
    /\ disk.strategy = "bitmap"
    /\ ~is_contiguous(disk.files[last.path])
    /\ FreeCount(disk) = 0

\* k is ceil(len / BLOCK_SIZE).
IsCeil(k, len) == (k - 1) * BLOCK_SIZE < len /\ len <= k * BLOCK_SIZE

\* C14: the store has exactly TOTAL_BLOCKS slots, no slot holds more than
\* BLOCK_SIZE characters, every file owns ceil(len(content) / BLOCK_SIZE)
\* blocks, all full but the last, and a write gives its path that many
\* blocks for the content written.
C14_BlockSizes ==
    /\ DOMAIN disk.blocks = 0..(TOTAL_BLOCKS - 1)
    /\ \A i \in DOMAIN disk.blocks : Len(disk.blocks[i].text) <= BLOCK_SIZE
    /\ \A p \in DOMAIN disk.files :
          LET blks == disk.files[p]
          IN  /\ IsCeil(Len(blks), Len(read_file_text(disk, p)))
              /\ \A j \in 1..(Len(blks) - 1) : Len(disk.blocks[blks[j]].text) = BLOCK_SIZE
    /\ (last.cmd = "write" /\ last.out.kind = "Wrote") =>
          IsCeil(Len(disk.files[last.path]), Len(last.content))

\* A write of BLOCK_SIZE + 1 characters, stored in two blocks, next to a
\* file of BLOCK_SIZE characters stored in one.
C14_Witness ==
    /\ last.cmd = "write" /\ last.out.kind = "Wrote"
    /\ Len(last.content) = BLOCK_SIZE + 1
    /\ Len(disk.files[last.path]) = 2
    /\ \E q \in Others(disk, last.path) :
          Len(read_file_text(disk, q)) = BLOCK_SIZE /\ Len(disk.files[q]) = 1

\* What the allocator of the given name returns.
AllocBy(name, d, n) ==
    IF name = "bitmap" THEN get_free_blocks_bitmap(d, n)
    ELSE IF name = "first_fit" THEN get_free_blocks_first_fit(d, n)
    ELSE get_free_blocks_best_fit(d, n)

\* C15: a strategy command with a name outside {bitmap, first_fit,
\* best_fit} reports InvalidStrategy and changes nothing; with a valid name
\* it sets the strategy and leaves every block and file-table entry where
\* it was; and a write that follows it allocates with the allocator named.
C15_SetStrategy ==
    [][/\ last'.cmd = "strategy" =>
             LET name == last'.content[1]
             IN  IF name \notin {"bitmap", "first_fit", "best_fit"}
                 THEN /\ last'.out.kind = "InvalidStrategy"
                      /\ disk' = disk
                      /\ disk_file' = disk_file
                 ELSE /\ last'.out.kind = "Changed"
                      /\ disk'.strategy = name
                      /\ disk'.blocks = disk.blocks
                      /\ disk'.files = disk.files
       /\ (last.cmd = "strategy" /\ last.out.kind = "Changed" /\ last'.cmd = "write") =>
             LET r == AllocBy(last.content[1], disk, blocks_needed(last'.content))
             IN  IF r.isNone \/ r.list = <<>>
                 THEN last'.out.kind = "NoSpace"
                 ELSE last'.out.kind = "Wrote" /\ disk'.files[last'.path] = r.list]_vars

\* The strategy has just been changed to first_fit on a disk with a file in
\* non-adjacent blocks, which stays where it is.
C15_Witness ==
    /\ last.cmd = "strategy" /\ last.out.kind = "Changed"
    /\ disk.strategy = "first_fit"
    /\ \E p \in DOMAIN disk.files : ~is_contiguous(disk.files[p])

\* C16: cat and rm of a path that is not in the file table report NotFound
\* and leave blocks, file table, strategy and the saved disk as they were;
\* cat never changes the disk.
C16_NotFound ==
    [][/\ (last'.cmd \in {"cat", "rm"} /\ last'.path \notin DOMAIN disk.files) =>
             /\ last'.out.kind = "NotFound"
             /\ disk' = disk
             /\ disk_file' = disk_file
       /\ last'.cmd = "cat" =>
             /\ disk' = disk
             /\ disk_file' = disk_file]_vars

\* An rm of an absent path was refused on a disk that holds another file.
C16_Witness ==
    /\ last.cmd = "rm" /\ ~last.existed /\ last.out.kind = "NotFound"
    /\ DOMAIN disk.files # {}

\* C17: ls reports a file as fragmented exactly when it owns at least two
\* blocks that are not a run of consecutive ascending indices, and as
\* contiguous otherwise; the size it reports is the length of the content
\* read from the path.
C17_List ==
    last.cmd = "ls" =>
        IF DOMAIN disk.files = {} THEN last.out.kind = "NoFiles"
        ELSE /\ last.out.kind = "Listing"
             /\ DOMAIN last.out.text = DOMAIN disk.files
             /\ \A name \in DOMAIN disk.files :
                   LET row == last.out.text[name]
                       blks == disk.files[name]
                       run == \A i \in 1..(Len(blks) - 1) : blks[i + 1] = blks[i] + 1
                   IN  /\ row.frag = IF Len(blks) >= 2 /\ ~run
                                     THEN "fragmented" ELSE "contiguous"
                       /\ row.size = Len(read_file_text(disk, name))
                       /\ row.blocks = Len(blks)

\* A listing with a fragmented file of two blocks and a contiguous file of
\* one block.
C17_Witness ==
    /\ last.cmd = "ls" /\ last.out.kind = "Listing"
    /\ \E p \in DOMAIN disk.files :
          last.out.text[p].frag = "fragmented" /\ last.out.text[p].blocks = 2
    /\ \E q \in DOMAIN disk.files :
          last.out.text[q].frag = "contiguous" /\ last.out.text[q].blocks = 1

\* The number of blocks the files of names own together.
RECURSIVE OwnedCount(_, _)
OwnedCount(d, names) ==
    IF names = <<>> THEN 0
    ELSE Len(d.files[Head(names)]) + OwnedCount(d, Tail(names))

\* C18: a slot is non-empty exactly when some file owns it, no slot holds an
\* empty fragment, the free count info reports is TOTAL_BLOCKS less the
\* files' block counts, and map marks exactly the slots free_indices leaves
\* out.
C18_NoLeak ==
    /\ \A i \in DOMAIN disk.blocks :
          /\ (~disk.blocks[i].isNone) <=>
                (\E p \in DOMAIN disk.files : i \in BlockSet(disk.files[p]))
          /\ ~disk.blocks[i].isNone => disk.blocks[i].text # <<>>
          /\ (MapBits(disk)[i + 1] = "1") <=> (i \notin BlockSet(free_indices(disk)))
    /\ InfoCmd(disk).out.text.free_blocks
          = TOTAL_BLOCKS - OwnedCount(disk, SelectSeq(PathOrder,
                                                     LAMBDA p : p \in DOMAIN disk.files))
    /\ last.cmd = "info" => last.out = InfoCmd(disk).out
    /\ last.cmd = "map" => last.out = MapCmd(disk).out

\* A map report that shows a free slot between two used ones.
C18_Witness ==
    /\ last.cmd = "map" /\ last.out.kind = "Map"
    /\ \E i \in Indices, j \in Indices, k \in Indices :
          /\ i < j /\ j < k
          /\ last.out.text[1][i + 1] = "1"
          /\ last.out.text[1][j + 1] = "0"
          /\ last.out.text[1][k + 1] = "1"

\* A block list of at least two blocks that is not a run of consecutive
\* ascending indices.
Fragmented(blks) ==
    Len(blks) >= 2 /\ \E i \in 1..(Len(blks) - 1) : blks[i + 1] # blks[i] + 1

\* The path the step's write or append stores under: an append passes the
\* first word of its path to the nested write.
WrittenPath ==
    IF last'.cmd = "write" THEN last'.path
    ELSE IF last'.cmd = "append" THEN <<last'.path[1]>>
    ELSE NoPath

\* C19: a write under first_fit or best_fit stores its file in a run of
\* consecutive ascending blocks; a file that is not fragmented stays so
\* through every command that does not rewrite it; and a file is fragmented
\* after a step only if it was so, with the same blocks, before, or the step
\* wrote it under bitmap.
C19_ContiguousUnlessBitmap ==
    [][\A p \in DOMAIN disk'.files :
          /\ (WrittenPath = p /\ disk.strategy \in {"first_fit", "best_fit"}
                /\ (p \notin DOMAIN disk.files \/ disk'.files[p] # disk.files[p]))
             => ~Fragmented(disk'.files[p])
          /\ (p \in DOMAIN disk.files /\ WrittenPath # p /\ ~Fragmented(disk.files[p]))
             => ~Fragmented(disk'.files[p])
          /\ Fragmented(disk'.files[p]) =>
                \/ p \in DOMAIN disk.files /\ disk'.files[p] = disk.files[p]
                \/ WrittenPath = p /\ disk.strategy = "bitmap"]_vars

\* A write of two blocks under first_fit, next to another file.
C19_Witness ==
    /\ last.cmd = "write" /\ last.out.kind = "Wrote"
    /\ disk.strategy = "first_fit"
    /\ Len(disk.files[last.path]) = 2
    /\ Others(disk, last.path) # {}

\* C20: defragment never fails on an index past the store, assigns only
\* indices below TOTAL_BLOCKS, keeps the number of used slots and every
\* file's block count, and a second defragment right after changes nothing.
C20_DefragStable ==
    [][last'.cmd = "defrag" =>
          /\ last'.out.kind = "Defragmented"
          /\ DOMAIN disk'.blocks = 0..(TOTAL_BLOCKS - 1)
          /\ DOMAIN disk'.files = DOMAIN disk.files
          /\ \A p \in DOMAIN disk.files :
                /\ \A b \in BlockSet(disk'.files[p]) : b >= 0 /\ b < TOTAL_BLOCKS
                /\ Len(disk'.files[p]) = Len(disk.files[p])
          /\ FreeCount(disk') = FreeCount(disk)
          /\ DefragCmd(disk').disk = disk'
          /\ DefragCmd(disk').out.kind = "Defragmented"]_vars

\* A defragment of a disk whose two files fill every slot.
C20_Witness ==
    /\ last.cmd = "defrag" /\ last.out.kind = "Defragmented"
    /\ Cardinality(DOMAIN disk.files) = 2
    /\ FreeCount(disk) = 0

====
